---- MODULE Spec2Model ----
(***************************************************************************)
(* A model of MatchupTable (src/MatchupTable.py): the card index built     *)
(* from the catalog listing, the wins / total-games accumulator updated by *)
(* process_game, the smoothed winrate derivation, the CSV codec and the    *)
(* batch ingestion driver.                                                 *)
(*                                                                         *)
(* Numbers.  The three tables are float64 arrays.  The wins and total      *)
(* tables only ever hold small whole numbers, which float64 holds exactly; *)
(* they are modelled as integers.  A winrate cell is the correctly rounded *)
(* quotient of two small whole numbers; two such quotients are the same    *)
(* float exactly when the fractions are equal, so a winrate is modelled as *)
(* the fraction in lowest terms, <<numerator, denominator>>.               *)
(* Indices are 0-based as in the source.                                   *)
(***************************************************************************)
EXTENDS Integers, Sequences, FiniteSets, TLC

VARIABLES
    catalog,              \* the /cards response: [items, supportItems]
    card_name_to_index,   \* self.card_name_to_index
    index_to_card_name,   \* self.index_to_card_name
    wins_table,           \* self.wins_table
    total_games_table,    \* self.total_games_table
    winrates_table,       \* self.winrates_table
    gamesProcessed,       \* self.gamesProcessed
    derived,              \* whether the winrates have been calculated since construction
    call,                 \* the last call made, with its arguments
    files,                \* the artifacts on disk, by file name
    loaded,               \* the fresh MatchupTable of the plotting script
    driver                \* the batch run of count_top_n_ranked_player_games

vars == <<catalog, card_name_to_index, index_to_card_name, wins_table,
          total_games_table, winrates_table, gamesProcessed, derived, call, files, loaded,
          driver>>

\* the fields of the table that builds the matchups
tableVars == <<catalog, card_name_to_index, index_to_card_name, wins_table,
               total_games_table, winrates_table, gamesProcessed, derived>>

-----------------------------------------------------------------------------
(* Bounds and input sets *)

\* process_game stops being offered once this many games have been counted
MaxGames == 2

\* the catalog endpoint's listing at its longest: two spellings of one card among
\* the main cards, one tower troop
FullItems == <<"Knight", "KNIGHT">>
FullSupportItems == <<"Cannoneer">>

\* str.lower() on the names above (identity on names already in lower case)
Lower(name) ==
    CASE name = "Knight" -> "knight"
      [] name = "KNIGHT" -> "knight"
      [] name = "Cannoneer" -> "cannoneer"
      [] name = "Mirror" -> "mirror"
      [] OTHER -> name

\* lists of at most one element of S
ListsUpTo1(S) == {<<>>} \cup {<<a>> : a \in S}

\* the listings the endpoint can answer with: at least one main card
CatalogListings ==
    {[items |-> SubSeq(FullItems, 1, k), supportItems |-> SubSeq(FullSupportItems, 1, m)] :
        k \in 1 .. Len(FullItems), m \in 0 .. Len(FullSupportItems)}

\* decks: at most one card and at most one support card; "mirror" is in no
\* catalog, "cannoneer" only in the catalogs that list the tower troop
Decks ==
    [cards : ListsUpTo1({"knight", "mirror"}),
     supportCards : ListsUpTo1({"cannoneer"})]

Winner == {"team", "opponent", "draw"}

\* the file main() saves to and the plotting script loads, and the file the
\* batch run saves to when a fetch fails
MainCsv == "card_matchups_from_recent_ranked_games_of_08_2025_top_200_on_10_02_2025.csv"
RescueFile == "matchup_table.txt"
FileNames == {MainCsv, RescueFile}

\* no such file on disk
NoFile == [exists |-> FALSE, rows |-> <<>>]

GameInfos == [winner : Winner, team_deck : Decks, opponent_deck : Decks]

-----------------------------------------------------------------------------
(* __init_tables *)

AllCards(listing) == listing.items \o listing.supportItems

\* card_name_to_index after the first k iterations of the loop over all_cards
RECURSIVE NameToIndexAfter(_, _)
NameToIndexAfter(all_cards, k) ==
    IF k = 0 THEN [x \in {} |-> 0]
    ELSE LET prev == NameToIndexAfter(all_cards, k - 1)
             name == Lower(all_cards[k])
         IN  [x \in (DOMAIN prev) \cup {name} |-> IF x = name THEN k - 1 ELSE prev[x]]

\* index_to_card_name after the loop: every index gets its own entry
IndexToName(all_cards) ==
    [i \in 0 .. (Len(all_cards) - 1) |-> Lower(all_cards[i + 1])]

Indices(n) == 0 .. (n - 1)

\* np.zeros((n, n))
Zeros(n) == [c \in Indices(n) \X Indices(n) |-> 0]

\* the float 0.0
FloatZero == <<0, 1>>

\* the initial winrates table, np.zeros((n, n))
InitWinrates(n) == [c \in Indices(n) \X Indices(n) |-> FloatZero]

\* the dimension of the tables, wins_table.shape[0]
N == Len(AllCards(catalog))

Init ==
    /\ catalog \in CatalogListings
    /\ card_name_to_index = NameToIndexAfter(AllCards(catalog), Len(AllCards(catalog)))
    /\ index_to_card_name = IndexToName(AllCards(catalog))
    /\ wins_table = Zeros(Len(AllCards(catalog)))
    /\ total_games_table = Zeros(Len(AllCards(catalog)))
    /\ winrates_table = InitWinrates(Len(AllCards(catalog)))
    /\ gamesProcessed = 0
    /\ derived = FALSE
    /\ call = [op |-> "__init__"]
    /\ files = [f \in FileNames |-> NoFile]
    /\ loaded = [status |-> "none"]
    /\ driver = [pc |-> "idle", tags |-> <<>>, next |-> 1, failure |-> ""]

-----------------------------------------------------------------------------
(* process_game *)

\* _indices_for_deck: the known names' indices, np.unique'd (a set)
_indices_for_deck(name_to_index, deck) ==
    LET names == deck.cards \o deck.supportCards
    IN  {name_to_index[names[k]] : k \in {m \in DOMAIN names : names[m] \in DOMAIN name_to_index}}

\* table[np.ix_(rows, cols)] += 1.0
AddOne(table, rows, cols) ==
    [c \in DOMAIN table |-> IF c[1] \in rows /\ c[2] \in cols THEN table[c] + 1 ELSE table[c]]

\* process_game without its return on a draw
SkippedOnlyWhenEmpty(winner, team_idx, opp_idx) ==
    \/ team_idx = {}
    \/ opp_idx = {}

\* the early returns of process_game: a draw, or a deck with no known card
Skipped(winner, team_idx, opp_idx) ==
    \/ winner = "draw"
    \/ team_idx = {}
    \/ opp_idx = {}

\* the wins update crediting the team whoever won
WinsAfterTeamAlways(wins, winner, team_idx, opp_idx) ==
    IF winner \in {"team", "opponent"} THEN AddOne(wins, team_idx, opp_idx) ELSE wins

\* the wins update with the loser's cells decremented as well
WinsAfterWithPenalty(wins, winner, team_idx, opp_idx) ==
    LET SubOne(table, rows, cols) ==
            [c \in DOMAIN table |->
                IF c[1] \in rows /\ c[2] \in cols THEN table[c] - 1 ELSE table[c]]
    IN  IF winner = "team" THEN SubOne(AddOne(wins, team_idx, opp_idx), opp_idx, team_idx)
        ELSE IF winner = "opponent" THEN SubOne(AddOne(wins, opp_idx, team_idx), team_idx, opp_idx)
        ELSE wins

\* the wins update: the winner's cards against the loser's
WinsAfter(wins, winner, team_idx, opp_idx) ==
    IF winner = "team" THEN AddOne(wins, team_idx, opp_idx)
    ELSE IF winner = "opponent" THEN AddOne(wins, opp_idx, team_idx)
    ELSE wins

\* the total games update in the team's orientation only
TotalAfterOneWay(total, team_idx, opp_idx) == AddOne(total, team_idx, opp_idx)

\* the total games update: both orientations, one after the other
TotalAfter(total, team_idx, opp_idx) ==
    AddOne(AddOne(total, team_idx, opp_idx), opp_idx, team_idx)

\* the table's wins, totals and counter after process_game(game_info)
ProcessGame(name_to_index, wins, total, games, game_info) ==
    LET team_idx == _indices_for_deck(name_to_index, game_info.team_deck)
        opp_idx == _indices_for_deck(name_to_index, game_info.opponent_deck)
    IN  IF Skipped(game_info.winner, team_idx, opp_idx)
        THEN [wins_table |-> wins, total_games_table |-> total, gamesProcessed |-> games]
        ELSE [wins_table |-> WinsAfter(wins, game_info.winner, team_idx, opp_idx),
              total_games_table |-> TotalAfter(total, team_idx, opp_idx),
              gamesProcessed |-> games + 1]

process_game(game_info) ==
    /\ gamesProcessed < MaxGames
    /\ call' = [op |-> "process_game", game_info |-> game_info]
    /\ LET after == ProcessGame(card_name_to_index, wins_table, total_games_table,
                                gamesProcessed, game_info)
       IN  /\ wins_table' = after.wins_table
           /\ total_games_table' = after.total_games_table
           /\ gamesProcessed' = after.gamesProcessed
    /\ UNCHANGED <<catalog, card_name_to_index, index_to_card_name, winrates_table,
                   derived, files, loaded, driver>>

-----------------------------------------------------------------------------
(* calculate_winrates *)

RECURSIVE GCD(_, _)
GCD(a, b) == IF b = 0 THEN a ELSE GCD(b, a % b)

\* float division of two whole numbers, den > 0: the fraction in lowest terms
FloatDiv(num, den) == LET g == GCD(num, den) IN <<num \div g, den \div g>>

\* winrate_function with the smoothing added once to the games
winrate_function_one_prior(wins, total_games, smoothing) ==
    FloatDiv(wins + smoothing, total_games + smoothing)

\* winrate_function with no smoothing of the wins
winrate_function_raw_wins(wins, total_games, smoothing) ==
    FloatDiv(wins, total_games + (2 * smoothing))

\* winrate_function: smoothing adds that many wins and that many losses
winrate_function(wins, total_games, smoothing) ==
    FloatDiv(wins + smoothing, total_games + (2 * smoothing))

\* the default value of winrate_function's smoothing parameter
DefaultSmoothing == 1

calculate_winrates ==
    /\ call' = [op |-> "calculate_winrates"]
    /\ winrates_table' =
         [c \in DOMAIN wins_table |->
            winrate_function(wins_table[c], total_games_table[c], DefaultSmoothing)]
    /\ derived' = TRUE
    /\ UNCHANGED <<catalog, card_name_to_index, index_to_card_name, wins_table,
                   total_games_table, gamesProcessed, files, loaded, driver>>

-----------------------------------------------------------------------------
(* save_to_csv *)

(* A CSV cell is the text csv.writer emits for a Python value: a name as it  *)
(* is, str() of an int, repr() of a float.  A cell records which of the      *)
(* three texts it is and the value the text spells.  The text of an int has  *)
(* no ".", the text of a float always has one ("1.0", "0.5"), and float()    *)
(* of the repr() of a float is that float.                                   *)
NameCell(name) == [kind |-> "name", name |-> name, num |-> 0, den |-> 1]
IntCell(i) == [kind |-> "int", name |-> "", num |-> i, den |-> 1]
FloatCell(x) == [kind |-> "float", name |-> "", num |-> x[1], den |-> x[2]]

\* a whole number held in a float64 cell
ToFloat(k) == <<k, 1>>

\* the keys of card_name_to_index in the dict's order, the order of first insertion
RECURSIVE DictKeys(_, _)
DictKeys(all_cards, k) ==
    IF k = 0 THEN <<>>
    ELSE LET prev == DictKeys(all_cards, k - 1)
             name == Lower(all_cards[k])
         IN  IF \E m \in DOMAIN prev : prev[m] = name THEN prev ELSE Append(prev, name)

\* the rows written for card_name_to_index.items()
MappingRows(name_to_index, keys) ==
    [k \in 1 .. Len(keys) |-> <<NameCell(keys[k]), IntCell(name_to_index[keys[k]])>>]

\* the rows written for a table of floats: [i] + table[i].tolist()
TableRows(table, n) ==
    [r \in 1 .. n |-> <<IntCell(r - 1)>> \o [c \in 1 .. n |-> FloatCell(table[<<r - 1, c - 1>>])]]

\* a table of whole numbers as the floats it holds
AsFloats(table) == [c \in DOMAIN table |-> ToFloat(table[c])]

\* the empty row that divides the sections
Divider == <<>>

\* everything save_to_csv writes
SavedRows(name_to_index, keys, wins, total, winrates, n) ==
    MappingRows(name_to_index, keys) \o <<Divider>>
    \o TableRows(AsFloats(wins), n) \o <<Divider>>
    \o TableRows(AsFloats(total), n) \o <<Divider>>
    \o TableRows(winrates, n)

\* what save_to_csv would write for the table as it is now
CurrentRows ==
    SavedRows(card_name_to_index, DictKeys(AllCards(catalog), Len(AllCards(catalog))),
              wins_table, total_games_table, winrates_table, N)

save_to_csv(filename) ==
    /\ call' = [op |-> "save_to_csv", filename |-> filename]
    /\ files' = [files EXCEPT ![filename] = [exists |-> TRUE, rows |-> CurrentRows]]
    /\ UNCHANGED <<tableVars, loaded, driver>>

-----------------------------------------------------------------------------
(* load_from_csv *)

\* int(text): only the text of an int parses
IntParses(cell) == cell.kind = "int"
\* float(text): the text of an int or of a float parses
FloatParses(cell) == cell.kind \in {"int", "float"}
ParseFloat(cell) == <<cell.num, cell.den>>

\* the loop over the rows of the file, after the first k rows; error names the
\* exception that ended it, if any
RECURSIVE ReadRows(_, _)
ReadRows(rows, k) ==
    IF k = 0
    THEN [error |-> "", dividers_hit |-> 0,
          card_name_to_index |-> [x \in {} |-> 0], index_to_card_name |-> [x \in {} |-> ""],
          wins_rows |-> <<>>, total_games_rows |-> <<>>, winrates_rows |-> <<>>]
    ELSE LET prev == ReadRows(rows, k - 1)
             row == rows[k]
             values == [c \in 1 .. (Len(row) - 1) |-> ParseFloat(row[c + 1])]
             bad_float == \E c \in 2 .. Len(row) : ~FloatParses(row[c])
         IN  IF prev.error # "" THEN prev
             ELSE IF Len(row) = 0 THEN [prev EXCEPT !.dividers_hit = @ + 1]
             ELSE IF prev.dividers_hit = 0 THEN
                  IF Len(row) < 2 THEN [prev EXCEPT !.error = "IndexError"]
                  ELSE IF ~IntParses(row[2]) \/ row[1].kind # "name"
                       THEN [prev EXCEPT !.error = "ValueError"]
                  ELSE LET name == row[1].name
                           index == row[2].num
                       IN  [prev EXCEPT
                              !.card_name_to_index =
                                  [x \in (DOMAIN @) \cup {name} |-> IF x = name THEN index ELSE @[x]],
                              !.index_to_card_name =
                                  [x \in (DOMAIN @) \cup {index} |-> IF x = index THEN name ELSE @[x]]]
             ELSE IF prev.dividers_hit \in {1, 2, 3} /\ bad_float
                  THEN [prev EXCEPT !.error = "ValueError"]
             ELSE IF prev.dividers_hit = 1 THEN [prev EXCEPT !.wins_rows = Append(@, values)]
             ELSE IF prev.dividers_hit = 2 THEN [prev EXCEPT !.total_games_rows = Append(@, values)]
             ELSE IF prev.dividers_hit = 3 THEN [prev EXCEPT !.winrates_rows = Append(@, values)]
             ELSE prev

\* np.array(rows, dtype=np.float64) raises ValueError on rows of unequal lengths
Ragged(rows) == \E a \in DOMAIN rows, b \in DOMAIN rows : Len(rows[a]) # Len(rows[b])

\* np.array(rows, dtype=np.float64): no rows give shape (0,)
NpArray(rows) ==
    [shape |-> IF rows = <<>> THEN <<0>> ELSE <<Len(rows), Len(rows[1])>>, rows |-> rows]

\* np.zeros((n, n)) of a freshly constructed table
NpZeros(n) == NpArray([r \in 1 .. n |-> [c \in 1 .. n |-> FloatZero]])

\* the plotting script's MatchupTable(...) before it loads anything
FreshTable(listing) ==
    [card_name_to_index |-> NameToIndexAfter(AllCards(listing), Len(AllCards(listing))),
     index_to_card_name |-> IndexToName(AllCards(listing)),
     wins_table |-> NpZeros(Len(AllCards(listing))),
     total_games_table |-> NpZeros(Len(AllCards(listing))),
     winrates_table |-> NpZeros(Len(AllCards(listing)))]

\* the table after load_from_csv on a file of these rows; status "ok" when it
\* returned, else the exception it raised
LoadFromCsv(table, rows) ==
    LET read == ReadRows(rows, Len(rows))
        maps == [table EXCEPT !.card_name_to_index = read.card_name_to_index,
                              !.index_to_card_name = read.index_to_card_name]
        with_wins == [maps EXCEPT !.wins_table = NpArray(read.wins_rows)]
        with_total == [with_wins EXCEPT !.total_games_table = NpArray(read.total_games_rows)]
        with_all == [with_total EXCEPT !.winrates_table = NpArray(read.winrates_rows)]
    IN  IF read.error # "" THEN [status |-> read.error, table |-> maps]
        ELSE IF Ragged(read.wins_rows) THEN [status |-> "ValueError", table |-> maps]
        ELSE IF Ragged(read.total_games_rows) THEN [status |-> "ValueError", table |-> with_wins]
        ELSE IF Ragged(read.winrates_rows) THEN [status |-> "ValueError", table |-> with_total]
        ELSE [status |-> "ok", table |-> with_all]

load_from_csv(filename) ==
    /\ files[filename].exists
    /\ call' = [op |-> "load_from_csv", filename |-> filename]
    /\ loaded' = LoadFromCsv(FreshTable(catalog), files[filename].rows)
    /\ UNCHANGED <<tableVars, files, driver>>

(* The artifact on disk is not always what save_to_csv wrote: a row can be   *)
(* lost, a row can lose its last cell, the file can be cut short.            *)
DropRow(rows, k) == SubSeq(rows, 1, k - 1) \o SubSeq(rows, k + 1, Len(rows))
DropLastCell(rows, k) == [rows EXCEPT ![k] = SubSeq(@, 1, Len(@) - 1)]
CutShort(rows, k) == SubSeq(rows, 1, k)

Damaged(rows) ==
    {DropRow(rows, k) : k \in DOMAIN rows}
    \cup {DropLastCell(rows, k) : k \in {m \in DOMAIN rows : Len(rows[m]) > 0}}
    \cup {CutShort(rows, k) : k \in 0 .. (Len(rows) - 1)}

\* one such damage to a file that is still as it was saved
artifact_damaged(filename) ==
    /\ files[filename].exists
    /\ files[filename].rows = CurrentRows
    /\ \E rows \in Damaged(files[filename].rows) :
          files' = [files EXCEPT ![filename] = [exists |-> TRUE, rows |-> rows]]
    /\ call' = [op |-> "artifact_damaged", filename |-> filename]
    /\ UNCHANGED <<tableVars, loaded, driver>>

\* main() of MatchupTable.py builds and derives, then saves once and ends; the
\* plotting script then constructs its own table and loads the file
NextCodec ==
    \/ ~files[MainCsv].exists /\ \E game_info \in GameInfos : process_game(game_info)
    \/ ~files[MainCsv].exists /\ calculate_winrates
    \/ ~files[MainCsv].exists /\ save_to_csv(MainCsv)
    \/ loaded.status = "none" /\ artifact_damaged(MainCsv)
    \/ loaded.status = "none" /\ load_from_csv(MainCsv)

SpecCodec == Init /\ [][NextCodec]_vars

-----------------------------------------------------------------------------
(* count_top_n_ranked_player_games, and main() around it *)

\* the ranking endpoint's answer: a status and the tags of the top players
FullTags == <<"#P1", "#P2">>
RankingResponses ==
    [status : {200, 503}, tags : {SubSeq(FullTags, 1, k) : k \in 0 .. Len(FullTags)}]

\* one side of a battle log record: crowns, cards and support cards
BattleSides ==
    [crowns : 0 .. 1,
     deck : {[cards |-> <<"Knight", "Mirror">>, supportCards |-> <<"Cannoneer">>],
             [cards |-> <<"Mirror">>, supportCards |-> <<"Cannoneer">>],
             [cards |-> <<"Knight">>, supportCards |-> <<>>]}]

\* battle log records: the ranked ones, and one record of another game mode
BattleRecords ==
    [type : {"pathOfLegend"}, team : BattleSides, opponent : BattleSides]
    \cup {[type |-> "PvP", team |-> side, opponent |-> side] :
             side \in {s \in BattleSides : s.crowns = 1 /\ s.deck.supportCards = <<>>}}

\* the battle log endpoint's answer: a status and at most two records
BattleLogResponses ==
    [status : {200, 503},
     games : {<<>>} \cup {<<a>> : a \in BattleRecords}
             \cup {<<a, b>> : a \in BattleRecords, b \in BattleRecords}]

\* the winner by crowns
WinnerOf(team_crowns, opponent_crowns) ==
    IF team_crowns > opponent_crowns THEN "team"
    ELSE IF opponent_crowns > team_crowns THEN "opponent"
    ELSE "draw"

\* [c['name'].lower() for c in cards_data if c['name'].lower() in self.card_name_to_index]
RECURSIVE KnownCards(_, _, _)
KnownCards(name_to_index, cards_data, k) ==
    IF k = 0 THEN <<>>
    ELSE LET prev == KnownCards(name_to_index, cards_data, k - 1)
             name == Lower(cards_data[k])
         IN  IF name \in DOMAIN name_to_index THEN Append(prev, name) ELSE prev

\* ['supportCards'][0] of a side with no support card raises IndexError
RecordRaises(game) ==
    \/ game.team.deck.supportCards = <<>>
    \/ game.opponent.deck.supportCards = <<>>

\* the Deck built from one side of a record
DeckOf(name_to_index, side) ==
    [cards |-> KnownCards(name_to_index, side.deck.cards, Len(side.deck.cards)),
     supportCards |-> <<Lower(side.deck.supportCards[1])>>]

\* the GameInfo built from a ranked record
GameInfoOf(name_to_index, game) ==
    [winner |-> WinnerOf(game.team.crowns, game.opponent.crowns),
     team_deck |-> DeckOf(name_to_index, game.team),
     opponent_deck |-> DeckOf(name_to_index, game.opponent)]

\* process_player_recent_ranked_games after the first k records of a log that
\* was fetched; error names the exception that ended the loop, if any
RECURSIVE PlayRecords(_, _, _, _, _, _)
PlayRecords(name_to_index, wins, total, games, log, k) ==
    IF k = 0
    THEN [error |-> "", wins_table |-> wins, total_games_table |-> total,
          gamesProcessed |-> games]
    ELSE LET prev == PlayRecords(name_to_index, wins, total, games, log, k - 1)
             game == log[k]
             after == ProcessGame(name_to_index, prev.wins_table, prev.total_games_table,
                                  prev.gamesProcessed, GameInfoOf(name_to_index, game))
         IN  IF prev.error # "" THEN prev
             ELSE IF game.type # "pathOfLegend" THEN prev
             ELSE IF RecordRaises(game) THEN [prev EXCEPT !.error = "IndexError"]
             ELSE [error |-> "", wins_table |-> after.wins_table,
                   total_games_table |-> after.total_games_table,
                   gamesProcessed |-> after.gamesProcessed]

\* main() calls count_top_n_ranked_player_games: the ranking is fetched and the
\* loop over the tags is entered
count_top_n_ranked_player_games(response) ==
    /\ driver.pc = "idle"
    /\ call' = [op |-> "count_top_n_ranked_player_games"]
    /\ driver' = IF response.status # 200
                 THEN [driver EXCEPT !.pc = "raised", !.failure = "ranking"]
                 ELSE IF response.tags = <<>>
                 THEN [driver EXCEPT !.pc = "returned"]
                 ELSE [driver EXCEPT !.pc = "loop", !.tags = response.tags, !.next = 1]
    /\ UNCHANGED <<tableVars, files, loaded>>

\* one iteration of the loop: the player's battle log is fetched and processed;
\* on an exception the except clause saves the table and the function returns
player_iteration(response) ==
    /\ driver.pc = "loop"
    /\ call' = [op |-> "process_player_recent_ranked_games", tag |-> driver.tags[driver.next]]
    /\ LET played == PlayRecords(card_name_to_index, wins_table, total_games_table,
                                 gamesProcessed, response.games, Len(response.games))
           raised == IF response.status # 200 THEN "fetch"
                     ELSE IF played.error # "" THEN "record"
                     ELSE ""
       IN  /\ wins_table' = IF response.status # 200 THEN wins_table ELSE played.wins_table
           /\ total_games_table' =
                 IF response.status # 200 THEN total_games_table ELSE played.total_games_table
           /\ gamesProcessed' =
                 IF response.status # 200 THEN gamesProcessed ELSE played.gamesProcessed
           /\ files' =
                 IF raised = "" THEN files
                 ELSE [files EXCEPT ![RescueFile] =
                         [exists |-> TRUE,
                          rows |-> SavedRows(card_name_to_index,
                                             DictKeys(AllCards(catalog), Len(AllCards(catalog))),
                                             wins_table', total_games_table', winrates_table, N)]]
           /\ driver' =
                 IF raised # ""
                 THEN [driver EXCEPT !.pc = "returned", !.failure = raised]
                 ELSE IF driver.next = Len(driver.tags)
                 THEN [driver EXCEPT !.pc = "returned"]
                 ELSE [driver EXCEPT !.next = @ + 1]
    /\ UNCHANGED <<catalog, card_name_to_index, index_to_card_name, winrates_table,
                   derived, loaded>>

\* the rest of main() once count_top_n_ranked_player_games has returned:
\* calculate_winrates, then save_to_csv
main_after_count ==
    /\ driver.pc = "returned"
    /\ call' = [op |-> "save_to_csv", filename |-> MainCsv]
    /\ winrates_table' =
         [c \in DOMAIN wins_table |->
            winrate_function(wins_table[c], total_games_table[c], DefaultSmoothing)]
    /\ files' = [files EXCEPT ![MainCsv] =
                   [exists |-> TRUE,
                    rows |-> SavedRows(card_name_to_index,
                                       DictKeys(AllCards(catalog), Len(AllCards(catalog))),
                                       wins_table, total_games_table, winrates_table', N)]]
    /\ derived' = TRUE
    /\ driver' = [driver EXCEPT !.pc = "done"]
    /\ UNCHANGED <<catalog, card_name_to_index, index_to_card_name, wins_table,
                   total_games_table, gamesProcessed, loaded>>

NextDriver ==
    \/ \E response \in RankingResponses : count_top_n_ranked_player_games(response)
    \/ \E response \in BattleLogResponses : player_iteration(response)
    \/ main_after_count

SpecDriver == Init /\ [][NextDriver]_vars

-----------------------------------------------------------------------------

Next ==
    \/ \E game_info \in GameInfos : process_game(game_info)
    \/ calculate_winrates

Spec == Init /\ [][Next]_vars

-----------------------------------------------------------------------------
(* Properties *)

\* the names of a deck, cards and support cards alike
DeckNames(deck) ==
    {deck.cards[k] : k \in DOMAIN deck.cards}
    \cup {deck.supportCards[k] : k \in DOMAIN deck.supportCards}

\* the indices a deck resolves to: those of its names the catalog index knows
Resolved(deck) ==
    {card_name_to_index[name] : name \in DeckNames(deck) \cap DOMAIN card_name_to_index}

\* 1 when cell c lies in rows x cols, else 0
InCross(c, rows, cols) == IF c[1] \in rows /\ c[2] \in cols THEN 1 ELSE 0

\* the step is a process_game call that is no draw and has a known card on each side
CountedGameStep ==
    /\ call'.op = "process_game"
    /\ call'.game_info.winner # "draw"
    /\ Resolved(call'.game_info.team_deck) # {}
    /\ Resolved(call'.game_info.opponent_deck) # {}

\* every wins cell grows by 1 in winner-indices x loser-indices and by 0 elsewhere
WinsEffect ==
    LET g == call'.game_info
        T == Resolved(g.team_deck)
        O == Resolved(g.opponent_deck)
        W == IF g.winner = "team" THEN T ELSE O
        L == IF g.winner = "team" THEN O ELSE T
    IN  \A c \in DOMAIN wins_table : wins_table'[c] = wins_table[c] + InCross(c, W, L)

\* C1 as stated: a counted process_game adds exactly 1 to wins[i][j] on the
\* winner x loser cross product, exactly 1 to total[i][j] and total[j][i] for the
\* pairs of the team x opponent cross product, and changes no other cell, for all
\* decks, decks that share cards included.
C1_ExactlyOnePerCell ==
    [][CountedGameStep =>
         /\ WinsEffect
         /\ LET T == Resolved(call'.game_info.team_deck)
                O == Resolved(call'.game_info.opponent_deck)
            IN  \A c \in DOMAIN total_games_table :
                   total_games_table'[c] = total_games_table[c]
                       + (IF InCross(c, T, O) = 1 \/ InCross(c, O, T) = 1 THEN 1 ELSE 0)]_vars

\* C1 amended: a counted process_game adds exactly 1 to wins[i][j] on the winner x
\* loser cross product and to no other wins cell, and adds to total[i][j] one for
\* each of team x opponent and opponent x team that holds (i,j): 1 when one does,
\* 2 when both do (i and j are both in both decks), 0 elsewhere.
C1_OnePerCrossProduct ==
    [][CountedGameStep =>
         /\ WinsEffect
         /\ LET T == Resolved(call'.game_info.team_deck)
                O == Resolved(call'.game_info.opponent_deck)
            IN  \A c \in DOMAIN total_games_table :
                   total_games_table'[c] = total_games_table[c]
                       + InCross(c, T, O) + InCross(c, O, T)]_vars

\* C1 witness: the first counted game was won by the team with a card that both
\* decks hold; that card's own cell has 1 win and 2 games.
C1_SharedCardGame ==
    /\ call.op = "process_game"
    /\ gamesProcessed = 1
    /\ call.game_info.winner = "team"
    /\ \E i \in Resolved(call.game_info.team_deck) \cap Resolved(call.game_info.opponent_deck) :
          /\ wins_table[<<i, i>>] = 1
          /\ total_games_table[<<i, i>>] = 2
    /\ Resolved(call.game_info.team_deck) # Resolved(call.game_info.opponent_deck)

\* C2: a process_game call with a draw, or with a team or opponent deck that
\* resolves to no index, leaves wins_table, total_games_table and gamesProcessed
\* unchanged.
C2_DrawOrEmptyIsNoOp ==
    [][(/\ call'.op = "process_game"
        /\ \/ call'.game_info.winner = "draw"
           \/ Resolved(call'.game_info.team_deck) = {}
           \/ Resolved(call'.game_info.opponent_deck) = {})
       => UNCHANGED <<wins_table, total_games_table, gamesProcessed>>]_vars

\* C2 witness: after a counted game, the last call was a draw between two decks
\* that both have known cards.
C2_DrawAfterGame ==
    /\ call.op = "process_game"
    /\ call.game_info.winner = "draw"
    /\ Resolved(call.game_info.team_deck) # {}
    /\ Resolved(call.game_info.opponent_deck) # {}
    /\ gamesProcessed = 1

\* C3: total_games_table is symmetric in every state reached by process_game calls.
C3_TotalSymmetric ==
    \A i \in Indices(N), j \in Indices(N) :
        total_games_table[<<i, j>>] = total_games_table[<<j, i>>]

\* C3 witness: two different cards have met, and their wins are not symmetric.
C3_AsymmetricWins ==
    \E i \in Indices(N), j \in Indices(N) :
        /\ i # j
        /\ total_games_table[<<i, j>>] > 0
        /\ wins_table[<<i, j>>] # wins_table[<<j, i>>]

\* C5: calculate_winrates sets every cell to (wins + 1) / (total + 2) of that
\* cell, which is exactly 0.5 where total is 0, and leaves wins_table,
\* total_games_table and gamesProcessed unchanged.
C5_WinratesFormula ==
    [][call'.op = "calculate_winrates" =>
         /\ \A c \in DOMAIN winrates_table' :
               /\ winrates_table'[c][2] > 0
               /\ winrates_table'[c][1] * (total_games_table[c] + 2)
                    = winrates_table'[c][2] * (wins_table[c] + 1)
               /\ total_games_table[c] = 0 => winrates_table'[c] = <<1, 2>>
         /\ DOMAIN winrates_table' = DOMAIN wins_table
         /\ UNCHANGED <<wins_table, total_games_table, gamesProcessed>>]_vars

\* C5 witness: the winrates were just calculated over a table that has a cell
\* with games and a cell without.
C5_CalculatedAfterGames ==
    /\ call.op = "calculate_winrates"
    /\ \E c \in DOMAIN total_games_table : total_games_table[c] > 0
    /\ \E c \in DOMAIN total_games_table :
          total_games_table[c] = 0 /\ winrates_table[c] = <<1, 2>>

\* every cell of winrates_table is strictly between 0 and 1
WinratesInOpenInterval ==
    \A c \in DOMAIN winrates_table :
        0 < winrates_table[c][1] /\ winrates_table[c][1] < winrates_table[c][2]

\* C6 as stated: from the end of construction onward every cell of winrates_table
\* is strictly greater than 0 and strictly less than 1.
C6_AlwaysInOpenInterval == WinratesInOpenInterval

\* C6 amended: once calculate_winrates has been called every cell of
\* winrates_table is strictly between 0 and 1, whatever process_game calls follow;
\* from construction until that first call every cell is 0.0.
C6_InOpenIntervalOnceCalculated ==
    IF derived THEN WinratesInOpenInterval
    ELSE \A c \in DOMAIN winrates_table : winrates_table[c] = <<0, 1>>

\* C6 witness: winrates were calculated and a game was counted after that, and
\* some pair with games has no win.
C6_StaleAfterGame ==
    /\ derived
    /\ call.op = "process_game"
    /\ gamesProcessed > 0
    /\ \E c \in DOMAIN wins_table :
          /\ wins_table[c] = 0
          /\ total_games_table[c] > 0
          /\ winrates_table[c] # <<1, 2>>

\* C9: card_name_to_index and index_to_card_name are mutually inverse bijections
\* between the card names and 0..N-1, N the dimension of the tables, for every
\* catalog listing, two items of one lowercased name included.
C9_IndexBijection ==
    /\ DOMAIN index_to_card_name = Indices(N)
    /\ DOMAIN wins_table = Indices(N) \X Indices(N)
    /\ {card_name_to_index[name] : name \in DOMAIN card_name_to_index} = Indices(N)
    /\ \A name \in DOMAIN card_name_to_index :
          index_to_card_name[card_name_to_index[name]] = name
    /\ \A i \in DOMAIN index_to_card_name :
          /\ index_to_card_name[i] \in DOMAIN card_name_to_index
          /\ card_name_to_index[index_to_card_name[i]] = i

\* C10: every recorded matchup is accounted for by exactly one win:
\* wins[i][j] + wins[j][i] = total[i][j], hence 0 <= wins[i][j] <= total[i][j].
C10_OneWinPerMatchup ==
    \A i \in Indices(N), j \in Indices(N) :
        /\ wins_table[<<i, j>>] + wins_table[<<j, i>>] = total_games_table[<<i, j>>]
        /\ 0 <= wins_table[<<i, j>>]
        /\ wins_table[<<i, j>>] <= total_games_table[<<i, j>>]

\* C10 witness: two different cards have each beaten the other.
C10_BothHaveWon ==
    \E i \in Indices(N), j \in Indices(N) :
        /\ i # j
        /\ wins_table[<<i, j>>] > 0
        /\ wins_table[<<j, i>>] > 0

\* the plotting script's table after the load: a float table of the loaded
\* instance equals, in shape and cell for cell, a table of the saving instance
SameTable(array, table) ==
    /\ array.shape = <<N, N>>
    /\ \A i \in Indices(N), j \in Indices(N) : array.rows[i + 1][j + 1] = table[<<i, j>>]

\* C4: save_to_csv followed by load_from_csv into a fresh instance yields
\* card_name_to_index and index_to_card_name identical to the original and the
\* three tables equal to the original cell for cell, with the same shape.
C4_RoundTrip ==
    (loaded.status # "none" /\ files[MainCsv].rows = CurrentRows) =>
        /\ loaded.status = "ok"
        /\ loaded.table.card_name_to_index = card_name_to_index
        /\ loaded.table.index_to_card_name = index_to_card_name
        /\ SameTable(loaded.table.wins_table, AsFloats(wins_table))
        /\ SameTable(loaded.table.total_games_table, AsFloats(total_games_table))
        /\ SameTable(loaded.table.winrates_table, winrates_table)

\* the non-empty rows that have exactly d dividers before them
Section(rows, d) ==
    {k \in DOMAIN rows :
        /\ Len(rows[k]) > 0
        /\ Cardinality({m \in 1 .. (k - 1) : Len(rows[m]) = 0}) = d}

\* a matrix section or a delimiter is missing, or two matrix sections differ in
\* their number of rows, or two matrix rows differ in their number of columns
Malformed(rows) ==
    \/ Cardinality({k \in DOMAIN rows : Len(rows[k]) = 0}) # 3
    \/ \E d \in 1 .. 3 : Section(rows, d) = {}
    \/ \E d \in 1 .. 3, e \in 1 .. 3 :
          Cardinality(Section(rows, d)) # Cardinality(Section(rows, e))
    \/ \E k \in DOMAIN rows, m \in DOMAIN rows :
          /\ Len(rows[k]) > 0
          /\ Len(rows[m]) > 0
          /\ Cardinality({n \in 1 .. (k - 1) : Len(rows[n]) = 0}) \in 1 .. 3
          /\ Cardinality({n \in 1 .. (m - 1) : Len(rows[n]) = 0}) \in 1 .. 3
          /\ Len(rows[k]) # Len(rows[m])

C8_FetchFailurePropagates ==
    driver.failure = "fetch" =>
        /\ files[RescueFile].exists
        /\ driver.pc = "raised"

====
